---- MODULE Spec2Model ----
(***************************************************************************)
(* A model of venv.go: the virtual-environment provisioner                 *)
(* (getPythonVersion, makeVenv, VenvConfig.Ensure) and the scoped command  *)
(* runner (VenvCommand.Run).                                               *)
(*                                                                         *)
(* Strings are sequences of tokens.  Path strings use one token per path   *)
(* component ("/usr", "/bin", ":"); interpreter output uses one token per  *)
(* character, except the literal "Python " which no other token can        *)
(* overlap and which is kept as one token.                                 *)
(***************************************************************************)
EXTENDS Integers, Sequences, FiniteSets, TLC

(***************************************************************************)
(* Bounds of the model.                                                    *)
(***************************************************************************)
\* Total number of Run invocations made over all goroutines.
MaxCalls == 2
\* Exit statuses of a child that exits by itself range over 0..MaxExit.
MaxExit == 2

\* The goroutines that call Run.
Threads == {"g1", "g2"}

\* The Config.Path values used by callers.
Roots == { <<"/v1">>, <<"/v2">> }

\* The values PATH may hold before the first Run; ok = FALSE is "not set".
InitEnviron ==
  { [ok |-> FALSE, val |-> << >>],
    [ok |-> TRUE,  val |-> <<"/usr", "/bin">>] }

(***************************************************************************)
(* Error values.                                                           *)
(***************************************************************************)
\* The nil error.
Nil == [kind |-> "nil"]

\* *exec.ExitError; code is ProcessState.ExitCode(): the exit status, or -1
\* for a process terminated by a signal.
ExitError(n) == [kind |-> "ExitError", code |-> n]

\* The error of os.StartProcess for a missing binary (*fs.PathError).
PathError == [kind |-> "PathError"]

\* context.DeadlineExceeded.
DeadlineExceeded == [kind |-> "DeadlineExceeded"]

\* errors.New(msg)
ErrorsNew(msg) == [kind |-> "new", msg |-> msg]

\* errors.Wrap(err, msg) of github.com/pkg/errors: nil for a nil err.
ErrorsWrap(e, msg) ==
  IF e = Nil THEN Nil ELSE [kind |-> "wrapped", msg |-> msg, cause |-> e]

\* The message an error value of Run carries ("" for nil).
ErrMsg(e) == IF e.kind \in {"wrapped", "new"} THEN e.msg ELSE ""

EnvLookupMsg   == "Unable to lookup the $PATH env variable"
StartMsg       == "unable to start command"
ExecFailedMsg  == "unable to complete command"
TimeoutMsg     == "Execution timed out"

(***************************************************************************)
(* String helpers.                                                         *)
(***************************************************************************)
\* strings.Contains(s, sub)
Contains(s, sub) ==
  \E i \in 0..(Len(s) - Len(sub)) : SubSeq(s, i + 1, i + Len(sub)) = sub

\* filepath.Join(root, "bin")
JoinBin(root) == root \o <<"/bin">>

\* fmt.Sprintf("%s:%s", venvPath, path)
Prepend(venvPath, p) == venvPath \o <<":">> \o p

(***************************************************************************)
(* State of the command runner.                                            *)
(***************************************************************************)
VARIABLES
  environ,   \* the process-wide PATH variable: [ok, val]
  pc,        \* per goroutine: its position in Run
  cmd,       \* per goroutine: the VenvCommand it runs
  path,      \* per goroutine: local `path` (line 164)
  ctxDone,   \* per goroutine: ctx.Err() = context.DeadlineExceeded
  child,     \* per goroutine: the child process, [st, code]
  err,       \* per goroutine: the error of cmd.Start / cmd.Wait / cmd.Run
  cmdEnv,    \* per goroutine: the PATH value of cmd.Env
  out,       \* per goroutine: CommandOutput
  hist,      \* per goroutine: what happened in this invocation
  calls,     \* number of Run invocations so far
  crashed,   \* the program ended by a panic
  written,   \* per goroutine: the lines its child wrote, per stream
  pipe,      \* per goroutine: the lines written and not yet read from the pipes
  buf,       \* per goroutine: stdoutBuf and stderrBuf (lines 221-223)
  held,      \* per goroutine: the lines its readers scanned and not yet printed
  fwd,       \* per goroutine: the lines its readers printed (lines 198-207)
  upd,       \* per goroutine: the Update call it is in, and its result
  ghost      \* history of the process-wide PATH

(***************************************************************************)
(* State of the provisioner and of version detection.                      *)
(***************************************************************************)
VARIABLES
  fsExists,  \* the directory Config.Path exists
  prov,      \* the provisioner: calls made so far, each goroutine's call
  verIn,     \* the interpreter getPythonVersion is applied to
  verOut     \* what getPythonVersion came to

ioVars == <<written, pipe, buf, held, fwd>>
runVars == <<environ, pc, cmd, path, ctxDone, child, err, cmdEnv, out, hist,
             calls, crashed, ioVars, upd, ghost>>
provVars == <<fsExists, prov>>
verVars == <<verIn, verOut>>
vars == <<runVars, provVars, verVars>>

\* VenvCommand.Env, as far as it names PATH.
NoEnv == [ok |-> FALSE, val |-> << >>]

NoCmd ==
  [Path |-> << >>, Binary |-> "", Args |-> << >>, Env |-> NoEnv,
   StreamOutput |-> FALSE, binaryExists |-> FALSE]
NoChild == [st |-> "none", code |-> 0]
NoOut == [Stdout |-> << >>, Stderr |-> << >>, Error |-> Nil, Exitcode |-> 0]
NoHist ==
  [lookup |-> "none", firedRunning |-> FALSE, started |-> FALSE,
   overlapped |-> FALSE]
NoLines == [o |-> << >>, e |-> << >>]
NoUpd == [st |-> "none", req |-> "", err |-> Nil]

\* The value of CommandOutput after line 160.
InitialOutput ==
  [Stdout |-> << >>, Stderr |-> << >>, Error |-> Nil, Exitcode |-> -1]

(***************************************************************************)
(* The process layer (os/exec), as far as Run observes it.                 *)
(***************************************************************************)
\* The error of cmd.Start: exec refuses to start under a context that is
\* already done, and os.StartProcess fails for a missing binary.
StartError(c, done) ==
  IF done THEN DeadlineExceeded
  ELSE IF ~c.binaryExists THEN PathError
  ELSE Nil

\* The errors cmd.Wait can return for a finished child.  A child ended by
\* the kill of the context, or by its own non-zero exit, gives an
\* *exec.ExitError.  A child that exited 0 gives nil; when the context was
\* done by then, exec reports either nil or the context's error, depending
\* on whether its watcher goroutine signalled the process before it was
\* reaped.
WaitErrors(ch, done) ==
  IF ch.st = "killed" THEN { ExitError(-1) }
  ELSE IF ch.code # 0 THEN { ExitError(ch.code) }
  ELSE IF done THEN { Nil, DeadlineExceeded }
  ELSE { Nil }

(***************************************************************************)
(* VenvCommand.Run, lines 153-246.                                         *)
(***************************************************************************)
\* Lines 154-162: the entry of Run with command c.  written, held and fwd
\* follow the child and the readers of the goroutine's latest invocation.
Enter(t, c) ==
  /\ ~crashed
  /\ pc[t] = "idle"
  /\ calls < MaxCalls
  /\ calls' = calls + 1
  /\ pc' = [pc EXCEPT ![t] = "lookup"]
  /\ cmd' = [cmd EXCEPT ![t] = c]
  /\ out' = [out EXCEPT ![t] = InitialOutput]
  /\ ctxDone' = [ctxDone EXCEPT ![t] = FALSE]
  /\ written' = [written EXCEPT ![t] = NoLines]
  /\ held' = [held EXCEPT ![t] = NoLines]
  /\ fwd' = [fwd EXCEPT ![t] = NoLines]
  /\ UNCHANGED <<environ, path, child, err, cmdEnv, hist, crashed,
               provVars, verVars, pipe, buf, ghost>>

\* Lines 153-162: a goroutine calls Run with command c directly.
Call(t, c) ==
  /\ Enter(t, c)
  /\ UNCHANGED upd

\* LookupEnv without the return of line 167: a Run that goes on with an empty
\* path after the failed lookup.
LookupEnv_NoReturn(t) ==
  /\ ~crashed
  /\ pc[t] = "lookup"
  /\ IF ~environ.ok
       THEN /\ out' = [out EXCEPT ![t].Error = ErrorsNew(EnvLookupMsg)]
            /\ hist' = [hist EXCEPT ![t].lookup = "unset"]
       ELSE /\ hist' = [hist EXCEPT ![t].lookup = "ok"]
            /\ UNCHANGED out
  /\ path' = [path EXCEPT ![t] = environ.val]
  /\ pc' = [pc EXCEPT ![t] = "setenv"]
  /\ UNCHANGED <<environ, cmd, ctxDone, child, err, cmdEnv, calls, crashed,
               provVars, verVars, ioVars, upd, ghost>>

\* The positions between the read of PATH (line 164) and the read of the
\* whole environment (line 188): the invocation holds a PATH value in `path`
\* and has yet to hand the environment to its child.
PathSection == {"setenv", "build"}

\* Another invocation is inside lines 164-188 when t reads PATH.
InPathSection(t) == \E u \in Threads \ {t} : pc[u] \in PathSection

\* Lines 164-168: os.LookupEnv("PATH").
LookupEnv(t) ==
  /\ ~crashed
  /\ pc[t] = "lookup"
  /\ IF ~environ.ok
       THEN /\ out' = [out EXCEPT ![t].Error = ErrorsNew(EnvLookupMsg)]
            /\ pc' = [pc EXCEPT ![t] = "done"]
            /\ hist' = [hist EXCEPT ![t].lookup = "unset"]
            /\ UNCHANGED path
            /\ UNCHANGED ghost
       ELSE /\ path' = [path EXCEPT ![t] = environ.val]
            /\ pc' = [pc EXCEPT ![t] = "setenv"]
            /\ hist' = [u \in Threads |->
                 IF u = t
                   THEN [hist[t] EXCEPT !.lookup = "ok",
                                        !.overlapped = InPathSection(t)]
                 ELSE IF pc[u] \in PathSection
                   THEN [hist[u] EXCEPT !.overlapped = TRUE]
                 ELSE hist[u]]
            /\ ghost' = [ghost EXCEPT !.overlap = @ \/ InPathSection(t)]
            /\ UNCHANGED out
  /\ UNCHANGED <<environ, cmd, ctxDone, child, err, cmdEnv, calls, crashed,
               provVars, verVars, ioVars, upd>>

\* Lines 171-176: the value os.Setenv stores, computed from the local path.
NewVenvPath(c, p) == Prepend(JoinBin(c.Path), p)

\* Lines 171-176: prepend <Config.Path>/bin unless `path` contains it.
UpdatePath(t) ==
  /\ ~crashed
  /\ pc[t] = "setenv"
  /\ IF ~Contains(path[t], JoinBin(cmd[t].Path))
       THEN environ' = [ok |-> TRUE, val |-> NewVenvPath(cmd[t], path[t])]
       ELSE UNCHANGED environ
  /\ ghost' = [ghost EXCEPT !.ran = @ \cup {cmd[t].Path}]
  /\ pc' = [pc EXCEPT ![t] = "build"]
  /\ UNCHANGED <<cmd, path, ctxDone, child, err, cmdEnv, out, hist, calls, crashed,
               provVars, verVars, ioVars, upd>>

\* Line 188: append(os.Environ(), c.Env...).  os/exec keeps the last entry
\* of a variable named twice, so a PATH entry of c.Env wins.
ChildPath(envVal, c) == IF c.Env.ok THEN c.Env.val ELSE envVal

\* Line 190: the branch taken after the command is built.
Branch(c) == IF c.StreamOutput THEN "start" ELSE "run"

\* Lines 178-190: exec.CommandContext, cmd.Env = os.Environ() + c.Env.
BuildCmd(t) ==
  /\ ~crashed
  /\ pc[t] = "build"
  /\ cmdEnv' = [cmdEnv EXCEPT ![t] = ChildPath(environ.val, cmd[t])]
  /\ pc' = [pc EXCEPT ![t] = Branch(cmd[t])]
  /\ UNCHANGED <<environ, cmd, path, ctxDone, child, err, out, hist, calls, crashed,
               provVars, verVars, ioVars, upd, ghost>>

\* Lines 193-196: the result of the streaming branch when cmd.Start fails.
StartFailed(o, e) == [o EXCEPT !.Error = ErrorsWrap(e, StartMsg)]

\* Lines 191-196: streaming branch, cmd.Start.
StartStreaming(t) ==
  /\ ~crashed
  /\ pc[t] = "start"
  /\ LET e == StartError(cmd[t], ctxDone[t]) IN
       /\ err' = [err EXCEPT ![t] = e]
       /\ IF e # Nil
            THEN /\ out' = [out EXCEPT ![t] = StartFailed(out[t], e)]
                 /\ pc' = [pc EXCEPT ![t] = "done"]
                 /\ UNCHANGED <<child, hist>>
            ELSE /\ child' = [child EXCEPT ![t] = [st |-> "running", code |-> 0]]
                 /\ hist' = [hist EXCEPT ![t].started = TRUE]
                 /\ pc' = [pc EXCEPT ![t] = "wait"]
                 /\ UNCHANGED out
  /\ UNCHANGED <<environ, cmd, path, ctxDone, cmdEnv, calls, crashed,
               provVars, verVars, ioVars, upd, ghost>>

\* Line 210 and 212: exitError, _ := err.(*exec.ExitError) gives a nil
\* pointer for any other error, and ExitCode() on it panics.
AssertionPanics(e) == e.kind # "ExitError"

\* WaitResult without line 216: a success keeps the initial Exitcode.
WaitResult_NoExitcode(o, e) ==
  IF e # Nil
    THEN [o EXCEPT !.Error = ErrorsWrap(e, ExecFailedMsg), !.Exitcode = e.code]
    ELSE o

\* Lines 209-218: the result of the streaming branch after cmd.Wait.
WaitResult(o, e) ==
  IF e # Nil
    THEN [o EXCEPT !.Error = ErrorsWrap(e, ExecFailedMsg), !.Exitcode = e.code]
    ELSE [o EXCEPT !.Exitcode = 0]

\* Lines 209-218: streaming branch, cmd.Wait and the result.  cmd.Wait
\* closes the read side of both pipes: what no reader has read by then is
\* lost.
WaitStreaming(t) ==
  /\ ~crashed
  /\ pc[t] = "wait"
  /\ child[t].st \in {"exited", "killed"}
  /\ \E e \in WaitErrors(child[t], ctxDone[t]) :
       /\ err' = [err EXCEPT ![t] = e]
       /\ IF e # Nil /\ AssertionPanics(e)
            THEN /\ crashed' = TRUE
                 /\ UNCHANGED <<out, pc>>
            ELSE /\ out' = [out EXCEPT ![t] = WaitResult(out[t], e)]
                 /\ pc' = [pc EXCEPT ![t] = "done"]
                 /\ UNCHANGED crashed
  /\ pipe' = [pipe EXCEPT ![t] = NoLines]
  /\ UNCHANGED <<environ, cmd, path, ctxDone, child, cmdEnv, hist, calls,
               provVars, verVars, written, buf, held, fwd, upd, ghost>>

\* Line 226, first half: cmd.Run starts the child.
RunStart(t) ==
  /\ ~crashed
  /\ pc[t] = "run"
  /\ LET e == StartError(cmd[t], ctxDone[t]) IN
       /\ err' = [err EXCEPT ![t] = e]
       /\ IF e # Nil
            THEN /\ pc' = [pc EXCEPT ![t] = "classify"]
                 /\ UNCHANGED <<child, hist>>
            ELSE /\ child' = [child EXCEPT ![t] = [st |-> "running", code |-> 0]]
                 /\ hist' = [hist EXCEPT ![t].started = TRUE]
                 /\ pc' = [pc EXCEPT ![t] = "runwait"]
  /\ UNCHANGED <<environ, cmd, path, ctxDone, cmdEnv, out, calls, crashed,
               provVars, verVars, ioVars, upd, ghost>>

\* Line 226: cmd.Run returns once the child has finished and exec's copying
\* goroutines have read the pipes to their end.
RunWait(t) ==
  /\ ~crashed
  /\ pc[t] = "runwait"
  /\ child[t].st \in {"exited", "killed"}
  /\ pipe[t] = NoLines
  /\ \E e \in WaitErrors(child[t], ctxDone[t]) :
       err' = [err EXCEPT ![t] = e]
  /\ pc' = [pc EXCEPT ![t] = "classify"]
  /\ UNCHANGED <<environ, cmd, path, ctxDone, child, cmdEnv, out, hist, calls, crashed,
               provVars, verVars, ioVars, upd, ghost>>

\* ClassifyBuffered with the two tests of lines 231 and 234 in the other
\* order: an error of cmd.Run is classified before the deadline is looked at.
ClassifyBuffered_ErrFirst(o, e, deadline) ==
  IF e # Nil
    THEN [o EXCEPT !.Exitcode = IF e.kind = "ExitError" THEN e.code ELSE @,
                   !.Error = ErrorsWrap(e, ExecFailedMsg)]
  ELSE IF deadline
    THEN [o EXCEPT !.Error = ErrorsWrap(e, TimeoutMsg)]
  ELSE [o EXCEPT !.Exitcode = 0]

\* Lines 231-245: the result of the buffered branch from the error of
\* cmd.Run and from whether ctx.Err() is context.DeadlineExceeded.
ClassifyBuffered(o, e, deadline) ==
  IF deadline
    THEN [o EXCEPT !.Error = ErrorsWrap(e, TimeoutMsg)]
  ELSE IF e # Nil
    THEN [o EXCEPT !.Exitcode = IF e.kind = "ExitError" THEN e.code ELSE @,
                   !.Error = ErrorsWrap(e, ExecFailedMsg)]
  ELSE [o EXCEPT !.Exitcode = 0]

\* Captured without line 228: only standard output reaches the result.
Captured_StdoutOnly(o, b) == [o EXCEPT !.Stdout = b.o]

\* Lines 228-229: the contents of the two buffers go into the result.
Captured(o, b) == [o EXCEPT !.Stdout = b.o, !.Stderr = b.e]

\* Lines 228-245: buffered branch, the captured output and the
\* classification of the outcome.
Classify(t) ==
  /\ ~crashed
  /\ pc[t] = "classify"
  /\ out' = [out EXCEPT ![t] =
       ClassifyBuffered(Captured(out[t], buf[t]), err[t], ctxDone[t])]
  /\ pc' = [pc EXCEPT ![t] = "done"]
  /\ UNCHANGED <<environ, cmd, path, ctxDone, child, err, cmdEnv, hist, calls, crashed,
               provVars, verVars, ioVars, upd, ghost>>

\* Run returns CommandOutput to its caller; its locals are gone.  The reader
\* goroutines of a streaming invocation are not joined: they and the lines
\* they hold outlive the return.
Return(t) ==
  /\ ~crashed
  /\ pc[t] = "done"
  /\ upd[t].st # "called"
  /\ pc' = [pc EXCEPT ![t] = "idle"]
  /\ cmd' = [cmd EXCEPT ![t] = NoCmd]
  /\ path' = [path EXCEPT ![t] = << >>]
  /\ ctxDone' = [ctxDone EXCEPT ![t] = FALSE]
  /\ child' = [child EXCEPT ![t] = NoChild]
  /\ err' = [err EXCEPT ![t] = Nil]
  /\ cmdEnv' = [cmdEnv EXCEPT ![t] = << >>]
  /\ out' = [out EXCEPT ![t] = NoOut]
  /\ hist' = [hist EXCEPT ![t] = NoHist]
  /\ buf' = [buf EXCEPT ![t] = NoLines]
  /\ pipe' = [pipe EXCEPT ![t] = NoLines]
  /\ IF cmd[t].StreamOutput
       THEN UNCHANGED written
       ELSE written' = [written EXCEPT ![t] = NoLines]
  /\ upd' = [upd EXCEPT ![t] = NoUpd]
  /\ UNCHANGED <<environ, calls, crashed,
               provVars, verVars, held, fwd, ghost>>

(***************************************************************************)
(* Config.Update, lines 119-131.                                           *)
(***************************************************************************)
UpdateMsg == "unable to update virtualenv"

\* Lines 120-124: the command Update builds for the environment at root.
\* StreamOutput is left at its zero value.
UpdateCommand(root, requirementsFile, exists) ==
  [Path |-> root, Binary |-> "pip",
   Args |-> <<"install", "-r", requirementsFile>>, Env |-> NoEnv,
   StreamOutput |-> FALSE, binaryExists |-> exists]

\* Lines 119-125: a goroutine calls Update, which enters Run.
CallUpdate(t, root, requirementsFile, exists) ==
  /\ Enter(t, UpdateCommand(root, requirementsFile, exists))
  /\ upd' = [upd EXCEPT ![t] =
       [st |-> "called", req |-> requirementsFile, err |-> Nil]]

\* Lines 126-130: what Update returns for the result o of Run.
UpdateResult(o) ==
  IF o.Error # Nil THEN ErrorsWrap(o.Error, UpdateMsg) ELSE Nil

\* Lines 126-130: Update returns; the result of Run stays visible until the
\* goroutine goes on.
UpdateReturn(t) ==
  /\ ~crashed
  /\ pc[t] = "done"
  /\ upd[t].st = "called"
  /\ upd' = [upd EXCEPT ![t].st = "returned", ![t].err = UpdateResult(out[t])]
  /\ UNCHANGED <<environ, pc, cmd, path, ctxDone, child, err, cmdEnv, out, hist,
               calls, crashed, provVars, verVars, ioVars, ghost>>

\* The requirement files callers pass to Update.
Requirements == {"requirements.txt", "dev-requirements.txt"}

(***************************************************************************)
(* The environment of Run: the deadline timer of line 154 and the child.   *)
(***************************************************************************)
\* Line 154: the timer of context.WithTimeout expires during the invocation.
DeadlineFires(t) ==
  /\ ~crashed
  /\ pc[t] \notin {"idle", "done"}
  /\ ~ctxDone[t]
  /\ ctxDone' = [ctxDone EXCEPT ![t] = TRUE]
  /\ hist' = [hist EXCEPT ![t].firedRunning = (child[t].st = "running")]
  /\ UNCHANGED <<environ, pc, cmd, path, child, err, cmdEnv, out, calls, crashed,
               provVars, verVars, ioVars, upd, ghost>>

\* Line 178: exec.CommandContext kills the child once the context is done.
Kill(t) ==
  /\ ~crashed
  /\ ctxDone[t]
  /\ child[t].st = "running"
  /\ child' = [child EXCEPT ![t] = [st |-> "killed", code |-> -1]]
  /\ UNCHANGED <<environ, pc, cmd, path, ctxDone, err, cmdEnv, out, hist, calls, crashed,
               provVars, verVars, ioVars, upd, ghost>>

\* The child exits by itself with status n.
ChildExit(t, n) ==
  /\ ~crashed
  /\ child[t].st = "running"
  /\ child' = [child EXCEPT ![t] = [st |-> "exited", code |-> n]]
  /\ UNCHANGED <<environ, pc, cmd, path, ctxDone, err, cmdEnv, out, hist, calls, crashed,
               provVars, verVars, ioVars, upd, ghost>>

\* No child writes more than MaxLines lines.
MaxLines == 2

\* The two streams of a child.
Streams == {"o", "e"}

\* The k-th line the child of goroutine t writes to stream s.
Line(t, s, k) == [by |-> t, to |-> s, n |-> k]

\* Copy into buffers declared at package level: every invocation's child
\* writes into the same two buffers.
Copy_Shared(b, t, s, l) == [u \in Threads |-> [b[u] EXCEPT ![s] = Append(@, l)]]

\* Lines 221-226: os/exec copies what the child writes into the buffer the
\* invocation gave it as cmd.Stdout or cmd.Stderr; cmd.Run returns after the
\* copy is complete.  The buffers are locals of the invocation.
Copy(b, t, s, l) == [b EXCEPT ![t][s] = Append(@, l)]

\* CopiesToBuffer with the buffers attached before the test of line 190.
CopiesToBuffer_Always(c) == TRUE

\* Lines 190 and 221-225: only the buffered branch makes the buffers the
\* child's stdout and stderr.
CopiesToBuffer(c) == ~c.StreamOutput

\* The positions of Run at which it waits for a started child: cmd.Wait
\* (line 209) and cmd.Run (line 226).
Waiting == {"wait", "runwait"}

\* The child writes one more line to stream s: the line is in the pipe.
ChildWrite(t, s) ==
  /\ ~crashed
  /\ child[t].st = "running"
  /\ Len(written[t].o) + Len(written[t].e) < MaxLines
  /\ \E l \in {Line(t, s, Len(written[t][s]) + 1)} :
       /\ written' = [written EXCEPT ![t][s] = Append(@, l)]
       /\ pipe' = [pipe EXCEPT ![t][s] = Append(@, l)]
  /\ UNCHANGED <<environ, pc, cmd, path, ctxDone, child, err, cmdEnv, out, hist,
               calls, crashed, provVars, verVars, buf, held, fwd, upd, ghost>>

\* Line 226: inside cmd.Run a goroutine of os/exec reads the next line of
\* stream s from the pipe and appends it to the buffer.
CopyToBuffer(t, s) ==
  /\ ~crashed
  /\ CopiesToBuffer(cmd[t])
  /\ pc[t] \in Waiting
  /\ pipe[t][s] # << >>
  /\ buf' = Copy(buf, t, s, Head(pipe[t][s]))
  /\ pipe' = [pipe EXCEPT ![t][s] = Tail(@)]
  /\ UNCHANGED <<environ, pc, cmd, path, ctxDone, child, err, cmdEnv, out, hist,
               calls, crashed, provVars, verVars, written, held, fwd, upd, ghost>>

\* Lines 198-207: a reader can read from its pipe between the start of the
\* child and the return of cmd.Wait, which closes the read side.
ReaderOpen(position) == position = "wait"

\* Lines 200 and 204: scanner.Scan() of the reader of stream s reads the
\* next line from the pipe.
Scan(t, s) ==
  /\ ~crashed
  /\ cmd[t].StreamOutput
  /\ ReaderOpen(pc[t])
  /\ pipe[t][s] # << >>
  /\ held' = [held EXCEPT ![t][s] = Append(@, Head(pipe[t][s]))]
  /\ pipe' = [pipe EXCEPT ![t][s] = Tail(@)]
  /\ UNCHANGED <<environ, pc, cmd, path, ctxDone, child, err, cmdEnv, out, hist,
               calls, crashed, provVars, verVars, written, buf, fwd, upd, ghost>>

\* Lines 201 and 205: fmt.Println of the reader of stream s prints a line
\* it has scanned.  The reader is not joined, so this also happens after
\* cmd.Wait and after Run have returned.
Forward(t, s) ==
  /\ ~crashed
  /\ held[t][s] # << >>
  /\ fwd' = [fwd EXCEPT ![t][s] = Append(@, Head(held[t][s]))]
  /\ held' = [held EXCEPT ![t][s] = Tail(@)]
  /\ UNCHANGED <<environ, pc, cmd, path, ctxDone, child, err, cmdEnv, out, hist,
               calls, crashed, provVars, verVars, written, pipe, buf, upd, ghost>>

\* The statuses a child exits with in the runs that look at its output.
OutputExits == {0, 1}

\* The commands callers pass to Run.
Commands ==
  [Path : Roots, Binary : {"ansible-playbook"}, Args : {<<"site.yml">>},
   Env : {NoEnv}, StreamOutput : BOOLEAN, binaryExists : BOOLEAN]

(***************************************************************************)
(* getPythonVersion, lines 33-54.                                          *)
(***************************************************************************)
Digits == <<"0", "1", "2", "3", "4", "5", "6", "7", "8", "9">>

\* The regexp class \d.
IsDigit(c) == \E i \in 1..10 : Digits[i] = c

\* The value of one decimal digit.
DigitVal(c) == (CHOOSE i \in 1..10 : Digits[i] = c) - 1

\* The regexp class `.`: one character other than a newline.  The token
\* "Python " stands for seven characters and is never one character.
IsAnyChar(c) == c \notin {"\n", "Python "}

\* The index of the last element of the longest run of digits of s that
\* starts at index k (k - 1 when s[k] is no digit): the greedy \d+.
RECURSIVE DigitRunEnd(_, _)
DigitRunEnd(s, k) ==
  IF k <= Len(s) /\ IsDigit(s[k]) THEN DigitRunEnd(s, k + 1) ELSE k - 1

\* Line 41: whether `Python (\d).(\d+)(\.\d+)?` matches s starting at index i.
MatchesAt(s, i) ==
  /\ i + 3 <= Len(s)
  /\ s[i] = "Python "
  /\ IsDigit(s[i + 1])
  /\ IsAnyChar(s[i + 2])
  /\ IsDigit(s[i + 3])

\* Line 42: r.FindStringSubmatch(output): the groups of the leftmost match,
\* or nil (matched = FALSE) when there is none.
FindStringSubmatch(s) ==
  IF \E i \in 1..Len(s) : MatchesAt(s, i)
    THEN LET i == CHOOSE k \in 1..Len(s) :
                    MatchesAt(s, k) /\ \A j \in 1..(k - 1) : ~MatchesAt(s, j)
         IN [matched |-> TRUE,
             g1 |-> <<s[i + 1]>>,
             g2 |-> SubSeq(s, i + 3, DigitRunEnd(s, i + 3))]
    ELSE [matched |-> FALSE, g1 |-> << >>, g2 |-> << >>]

\* The decimal digits of the largest int (64 bits).
MaxIntDigits ==
  <<"9","2","2","3","3","7","2","0","3","6","8","5","4","7","7","5","8","0","7">>

\* d without its leading zeros.
RECURSIVE StripZeros(_)
StripZeros(d) ==
  IF Len(d) > 1 /\ d[1] = "0" THEN StripZeros(Tail(d)) ELSE d

\* Whether digit string a is greater than digit string b of the same length.
RECURSIVE DigitsGreater(_, _)
DigitsGreater(a, b) ==
  IF a = << >> THEN FALSE
  ELSE IF a[1] # b[1] THEN DigitVal(a[1]) > DigitVal(b[1])
  ELSE DigitsGreater(Tail(a), Tail(b))

\* strconv.Atoi fails on a digit string whose value does not fit an int.
AtoiOutOfRange(d) ==
  LET z == StripZeros(d) IN
    \/ Len(z) > Len(MaxIntDigits)
    \/ Len(z) = Len(MaxIntDigits) /\ DigitsGreater(z, MaxIntDigits)

\* The value strconv.Atoi gives a string of digits that is in range.
RECURSIVE AtoiValue(_)
AtoiValue(d) ==
  IF d = << >> THEN 0
  ELSE 10 * AtoiValue(SubSeq(d, 1, Len(d) - 1)) + DigitVal(d[Len(d)])

\* The error of cmd.Output() for an interpreter that cannot be run.
InvokeError == [kind |-> "exec"]
\* The error of strconv.Atoi.
NumError == [kind |-> "NumError"]

DetectMsg     == "Unable to determine Python version."
ParseMajorMsg == "Unable to parse Python Major version."
ParseMinorMsg == "Unable to parse Python Minor version."

\* What a call of getPythonVersion comes to: it returns (major, minor, err),
\* or it panics.
Returned(ma, mi, e) == [st |-> "returned", major |-> ma, minor |-> mi, err |-> e]
Panicked == [st |-> "panic", major |-> 0, minor |-> 0, err |-> Nil]

\* Lines 33-54.  in.fails: the interpreter cannot be invoked; in.output: what
\* it prints on its standard output.  matches[1] on a nil slice (line 43)
\* is an index out of range, a run-time panic.
getPythonVersion(in) ==
  IF in.fails
    THEN Returned(-1, -1, ErrorsWrap(InvokeError, DetectMsg))
  ELSE LET matches == FindStringSubmatch(in.output) IN
    IF ~matches.matched
      THEN Panicked
    ELSE IF AtoiOutOfRange(matches.g1)
      THEN Returned(-1, -1, ErrorsWrap(NumError, ParseMajorMsg))
    ELSE IF AtoiOutOfRange(matches.g2)
      THEN Returned(-1, 1, ErrorsWrap(NumError, ParseMinorMsg))
    ELSE Returned(AtoiValue(matches.g1), AtoiValue(matches.g2), Nil)

(***************************************************************************)
(* makeVenv and VenvConfig.Ensure, lines 56-116.                           *)
(***************************************************************************)
\* The version gate with || for &&.
UseModule_Or(majorV, minorV) == majorV >= 3 \/ minorV >= 3

\* Line 65: the version gate; TRUE selects makeVenvViaModule.
UseModule(majorV, minorV) == majorV >= 3 /\ minorV >= 3

\* How the creating command ends: it succeeds ("ok") or it fails ("fail").
\* Whether a failed command leaves the directory behind depends on whether
\* its child had made it by then.
CommandOutcomes == {"ok", "fail"}

\* The positions of a call inside cmd.Run of a creating command (lines 80
\* and 96).
Creating == {"module", "legacy"}

\* The error of a creating command that did not succeed.
CommandError(run) == IF run = "ok" THEN Nil ELSE ExitError(1)

ErrNotFound == [kind |-> "ErrNotFound"]
NotFoundMsg == "virtualenv not found in path"
DetectFailedMsg == "Unable to determine python version for specified interpreter."
CreateFailedMsg == "unable to create virtual environment"

\* Ensure without the test of line 108: it creates on every call.
IsNotExist_Always(exists) == TRUE

\* Lines 107-108: os.IsNotExist of the error of os.Stat(c.Path).
IsNotExist(exists) == ~exists

\* Number of Ensure calls.
MaxEnsure == 2
\* Interpreters report versions 0.0 .. MaxMajor.MaxMinor.
MaxMajor == 4
MaxMinor == 10
\* Patch levels an interpreter reports: none (-1), or 0..MaxPatch.
MaxPatch == 0

\* The decimal digits of a natural number.
RECURSIVE Itoa(_)
Itoa(n) ==
  IF n < 10 THEN <<Digits[n + 1]>>
  ELSE Itoa(n \div 10) \o <<Digits[(n % 10) + 1]>>

\* What the interpreter of version ma.mi(.pa) prints for --version.
VersionOutput(ma, mi, pa) ==
  <<"Python ">> \o Itoa(ma) \o <<".">> \o Itoa(mi)
    \o (IF pa >= 0 THEN <<".">> \o Itoa(pa) ELSE << >>) \o <<"\n">>

\* The interpreters Config.Python may name: one that cannot be invoked, one
\* that prints nothing on its standard output, and one per version.
Interpreters ==
  { [fails |-> TRUE, output |-> << >>], [fails |-> FALSE, output |-> << >>] }
  \cup { [fails |-> FALSE, output |-> VersionOutput(ma, mi, pa)] :
           ma \in 0..MaxMajor, mi \in 0..MaxMinor, pa \in -1..MaxPatch }

NoDetect == [st |-> "none", major |-> 0, minor |-> 0, err |-> Nil]

\* A goroutine that is not inside Ensure.
NoCaller ==
  [pc |-> "idle", found |-> FALSE, detect |-> NoDetect, strategy |-> "none",
   err |-> Nil]

NoProv ==
  [ensures |-> 0, detects |-> 0, modules |-> 0, legacies |-> 0,
   panic |-> FALSE, call |-> [t \in Threads |-> NoCaller]]

\* Lines 106-108 and 115: goroutine t calls Ensure; os.Stat looks at
\* Config.Path.  A call that finds the path returns nil.
Ensure(t) ==
  /\ ~prov.panic
  /\ prov.call[t].pc = "idle"
  /\ prov.ensures < MaxEnsure
  /\ prov' = [prov EXCEPT
       !.ensures = @ + 1,
       !.call[t] = IF IsNotExist(fsExists)
                     THEN [NoCaller EXCEPT !.pc = "detect"]
                     ELSE [NoCaller EXCEPT !.pc = "done", !.found = TRUE]]
  /\ UNCHANGED <<fsExists, runVars, verVars>>

\* Lines 57-69: makeVenv.  `python --version` of the interpreter
\* Config.Python names has ended; getPythonVersion returns or panics, and the
\* gate of line 65 calls one of the two strategies.
makeVenv(t) ==
  /\ ~prov.panic
  /\ prov.call[t].pc = "detect"
  /\ \E in \in Interpreters :
     \E d \in { getPythonVersion(in) } :
       prov' = [prov EXCEPT
         !.detects = @ + 1,
         !.panic = (d.st = "panic"),
         !.modules = IF d.st # "panic" /\ d.err = Nil /\ UseModule(d.major, d.minor)
                       THEN @ + 1 ELSE @,
         !.legacies = IF d.st # "panic" /\ d.err = Nil /\ ~UseModule(d.major, d.minor)
                        THEN @ + 1 ELSE @,
         !.call[t] =
           IF d.st = "panic" THEN [@ EXCEPT !.detect = d]
           ELSE IF d.err # Nil
             THEN [@ EXCEPT !.detect = d, !.pc = "done",
                            !.err = ErrorsWrap(d.err, DetectFailedMsg)]
           ELSE IF UseModule(d.major, d.minor)
             THEN [@ EXCEPT !.detect = d, !.strategy = "module", !.pc = "module"]
           ELSE [@ EXCEPT !.detect = d, !.strategy = "legacy", !.pc = "lookpath"]]
  /\ UNCHANGED <<fsExists, runVars, verVars>>

\* Lines 80 and 96: while cmd.Run waits, the child of the creating command
\* makes the directory Config.Path.
CreateDir(t) ==
  /\ ~prov.panic
  /\ prov.call[t].pc \in Creating
  /\ ~fsExists
  /\ fsExists' = TRUE
  /\ UNCHANGED <<prov, runVars, verVars>>

\* Lines 77-86, 70-74 and 109-112: cmd.Run of python -m venv <path>
\* returns.  A command that succeeded has its directory.
makeVenvViaModule(t) ==
  /\ ~prov.panic
  /\ prov.call[t].pc = "module"
  /\ \E run \in CommandOutcomes :
       /\ run = "ok" => fsExists
       /\ prov' = [prov EXCEPT
            !.call[t].pc = "done",
            !.call[t].err = ErrorsWrap(CommandError(run), CreateFailedMsg)]
  /\ UNCHANGED <<fsExists, runVars, verVars>>

\* Lines 90-93: exec.LookPath("virtualenv") finds the executable or not.
LookPath(t) ==
  /\ ~prov.panic
  /\ prov.call[t].pc = "lookpath"
  /\ \E lookPath \in BOOLEAN :
       prov' = [prov EXCEPT
         !.call[t] =
           IF lookPath
             THEN [@ EXCEPT !.pc = "legacy"]
             ELSE [@ EXCEPT !.pc = "done",
                            !.err = ErrorsWrap(ErrorsWrap(ErrNotFound, NotFoundMsg),
                                               CreateFailedMsg)]]
  /\ UNCHANGED <<fsExists, runVars, verVars>>

\* Lines 95-102, 70-74 and 109-112: cmd.Run of virtualenv --python <python>
\* <path> returns.
makeVenvLegacy(t) ==
  /\ ~prov.panic
  /\ prov.call[t].pc = "legacy"
  /\ \E run \in CommandOutcomes :
       /\ run = "ok" => fsExists
       /\ prov' = [prov EXCEPT
            !.call[t].pc = "done",
            !.call[t].err = ErrorsWrap(CommandError(run), CreateFailedMsg)]
  /\ UNCHANGED <<fsExists, runVars, verVars>>

\* Lines 111 and 115: Ensure returns its error to the caller.
EnsureReturn(t) ==
  /\ ~prov.panic
  /\ prov.call[t].pc = "done"
  /\ prov' = [prov EXCEPT !.call[t] = NoCaller]
  /\ UNCHANGED <<fsExists, runVars, verVars>>

(***************************************************************************)
(* getPythonVersion applied to arbitrary interpreter output.               *)
(***************************************************************************)
\* Length of the text that follows the interpreter's name in its output.
MaxTail == 5

TailAlphabet == {"1", "3", ".", "x"}

SeqsUpTo(A, n) == UNION { [1..k -> A] : k \in 0..n }

\* Outputs: nothing, junk or "Python " in front, any text after, and the
\* final newline or none.
Outputs ==
  { pre \o tl \o nl :
      pre \in { << >>, <<"Python ">>, <<"x", "Python ">> },
      tl \in SeqsUpTo(TailAlphabet, MaxTail),
      nl \in { << >>, <<"\n">> } }

\* The caller applies getPythonVersion to the interpreter.
Detect ==
  /\ verOut.st = "none"
  /\ verOut' = getPythonVersion(verIn)
  /\ UNCHANGED <<verIn, runVars, provVars>>

(***************************************************************************)
(* Specifications.                                                         *)
(***************************************************************************)
\* The command runner idle, PATH as the program found it.
RunIdle ==
  /\ pc = [t \in Threads |-> "idle"]
  /\ cmd = [t \in Threads |-> NoCmd]
  /\ path = [t \in Threads |-> << >>]
  /\ ctxDone = [t \in Threads |-> FALSE]
  /\ child = [t \in Threads |-> NoChild]
  /\ err = [t \in Threads |-> Nil]
  /\ cmdEnv = [t \in Threads |-> << >>]
  /\ out = [t \in Threads |-> NoOut]
  /\ hist = [t \in Threads |-> NoHist]
  /\ calls = 0
  /\ crashed = FALSE
  /\ written = [t \in Threads |-> NoLines]
  /\ pipe = [t \in Threads |-> NoLines]
  /\ buf = [t \in Threads |-> NoLines]
  /\ held = [t \in Threads |-> NoLines]
  /\ fwd = [t \in Threads |-> NoLines]
  /\ upd = [t \in Threads |-> NoUpd]
  /\ ghost = [env0 |-> environ, overlap |-> FALSE, ran |-> {}]

\* The command runner: goroutines call Run on an existing environment.
Init ==
  /\ environ \in InitEnviron
  /\ RunIdle
  /\ fsExists = TRUE
  /\ prov = NoProv
  /\ verIn = [fails |-> FALSE, output |-> << >>]
  /\ verOut = NoDetect

Next ==
  \/ \E t \in Threads, c \in Commands : Call(t, c)
  \/ \E t \in Threads : LookupEnv(t)
  \/ \E t \in Threads : UpdatePath(t)
  \/ \E t \in Threads : BuildCmd(t)
  \/ \E t \in Threads : StartStreaming(t)
  \/ \E t \in Threads : WaitStreaming(t)
  \/ \E t \in Threads : RunStart(t)
  \/ \E t \in Threads : RunWait(t)
  \/ \E t \in Threads : Classify(t)
  \/ \E t \in Threads : Return(t)
  \/ \E t \in Threads : DeadlineFires(t)
  \/ \E t \in Threads : Kill(t)
  \/ \E t \in Threads, n \in 0..MaxExit : ChildExit(t, n)

Spec == Init /\ [][Next]_vars

\* The steps the invocation of goroutine t takes by itself.
RunStep(t) ==
  \/ LookupEnv(t)
  \/ UpdatePath(t)
  \/ BuildCmd(t)
  \/ StartStreaming(t)
  \/ WaitStreaming(t)
  \/ RunStart(t)
  \/ RunWait(t)
  \/ Classify(t)

\* The scheduler runs every goroutine that can take a step, the timer of
\* line 154 expires, and exec's watcher kills the child of a context that
\* is done.  Nothing makes a child exit by itself.
Fairness ==
  \A t \in Threads :
    /\ WF_vars(RunStep(t))
    /\ WF_vars(DeadlineFires(t))
    /\ WF_vars(Kill(t))

SpecLive == Init /\ [][Next]_vars /\ Fairness

\* The command runner with the output of the children: goroutine g1 works on
\* the first environment and g2 on the second.
InitOutput ==
  /\ environ = [ok |-> TRUE, val |-> <<"/usr", "/bin">>]
  /\ RunIdle
  /\ fsExists = TRUE
  /\ prov = NoProv
  /\ verIn = [fails |-> FALSE, output |-> << >>]
  /\ verOut = NoDetect

\* The commands of goroutine t that run in the given mode.
OwnCommands(t, stream) ==
  { c \in Commands : /\ c.Path = (IF t = "g1" THEN <<"/v1">> ELSE <<"/v2">>)
                     /\ c.StreamOutput = stream }

\* Buffered invocations and what their children write, up to the result of
\* each goroutine's invocation.
NextCapture ==
  \/ \E t \in Threads : \E c \in OwnCommands(t, FALSE) : Call(t, c)
  \/ \E t \in Threads : LookupEnv(t)
  \/ \E t \in Threads : UpdatePath(t)
  \/ \E t \in Threads : BuildCmd(t)
  \/ \E t \in Threads : RunStart(t)
  \/ \E t \in Threads : RunWait(t)
  \/ \E t \in Threads : Classify(t)
  \/ \E t \in Threads : DeadlineFires(t)
  \/ \E t \in Threads : Kill(t)
  \/ \E t \in Threads, n \in OutputExits : ChildExit(t, n)
  \/ \E t \in Threads, s \in Streams : ChildWrite(t, s)
  \/ \E t \in Threads, s \in Streams : CopyToBuffer(t, s)

SpecCapture == InitOutput /\ [][NextCapture]_vars

\* The goroutines that run streaming commands; the others run buffered
\* ones.
Streamers == {"g1"}

\* A streaming invocation next to a buffered one, up to their results: what
\* the children write, what the readers scan and print, what os/exec copies
\* into the buffers.  The deadline of the streaming invocation can expire.
NextStream ==
  \/ \E t \in Threads : \E c \in OwnCommands(t, t \in Streamers) : Call(t, c)
  \/ \E t \in Threads : LookupEnv(t)
  \/ \E t \in Threads : UpdatePath(t)
  \/ \E t \in Threads : BuildCmd(t)
  \/ \E t \in Threads : StartStreaming(t)
  \/ \E t \in Threads : WaitStreaming(t)
  \/ \E t \in Threads : RunStart(t)
  \/ \E t \in Threads : RunWait(t)
  \/ \E t \in Threads : Classify(t)
  \/ \E t \in Streamers : DeadlineFires(t)
  \/ \E t \in Streamers : Kill(t)
  \/ \E t \in Threads, n \in OutputExits : ChildExit(t, n)
  \/ \E t \in Threads, s \in Streams : ChildWrite(t, s)
  \/ \E t \in Threads, s \in Streams : CopyToBuffer(t, s)
  \/ \E t \in Threads, s \in Streams : Scan(t, s)
  \/ \E t \in Threads, s \in Streams : Forward(t, s)

SpecStream == InitOutput /\ [][NextStream]_vars

\* The PATH handling of Run: commands with and without a PATH entry in Env,
\* started in a process whose PATH is unset, plain, or already names the
\* first environment.
PathEnviron ==
  InitEnviron \cup
    { [ok |-> TRUE, val |-> Prepend(JoinBin(<<"/v1">>), <<"/usr", "/bin">>)] }

PathCommands ==
  [Path : Roots, Binary : {"ansible-playbook"}, Args : {<<"site.yml">>},
   Env : {NoEnv, [ok |-> TRUE, val |-> <<"/opt", "/bin">>]},
   StreamOutput : {FALSE}, binaryExists : {TRUE}]

InitPath ==
  /\ environ \in PathEnviron
  /\ RunIdle
  /\ fsExists = TRUE
  /\ prov = NoProv
  /\ verIn = [fails |-> FALSE, output |-> << >>]
  /\ verOut = NoDetect

NextPath ==
  \/ \E t \in Threads, c \in PathCommands : Call(t, c)
  \/ \E t \in Threads : LookupEnv(t)
  \/ \E t \in Threads : UpdatePath(t)
  \/ \E t \in Threads : BuildCmd(t)
  \/ \E t \in Threads : RunStart(t)
  \/ \E t \in Threads : RunWait(t)
  \/ \E t \in Threads : Classify(t)
  \/ \E t \in Threads : Return(t)
  \/ \E t \in Threads : ChildExit(t, 0)

SpecPath == InitPath /\ [][NextPath]_vars

\* Update: goroutines call Config.Update on an existing environment.
NextUpdate ==
  \/ \E t \in Threads, root \in Roots, req \in Requirements, ex \in BOOLEAN :
       CallUpdate(t, root, req, ex)
  \/ \E t \in Threads : LookupEnv(t)
  \/ \E t \in Threads : UpdatePath(t)
  \/ \E t \in Threads : BuildCmd(t)
  \/ \E t \in Threads : RunStart(t)
  \/ \E t \in Threads : RunWait(t)
  \/ \E t \in Threads : Classify(t)
  \/ \E t \in Threads : UpdateReturn(t)
  \/ \E t \in Threads : Return(t)
  \/ \E t \in Threads : DeadlineFires(t)
  \/ \E t \in Threads : Kill(t)
  \/ \E t \in Threads, n \in 0..MaxExit : ChildExit(t, n)

SpecUpdate == Init /\ [][NextUpdate]_vars

\* The provisioner: goroutines call Ensure on one Config, one call after the
\* other or at the same time.
InitEnsure ==
  /\ fsExists \in BOOLEAN
  /\ prov = NoProv
  /\ environ = [ok |-> FALSE, val |-> << >>]
  /\ RunIdle
  /\ verIn = [fails |-> FALSE, output |-> << >>]
  /\ verOut = NoDetect

NextEnsure ==
  \/ \E t \in Threads : Ensure(t)
  \/ \E t \in Threads : makeVenv(t)
  \/ \E t \in Threads : CreateDir(t)
  \/ \E t \in Threads : makeVenvViaModule(t)
  \/ \E t \in Threads : LookPath(t)
  \/ \E t \in Threads : makeVenvLegacy(t)
  \/ \E t \in Threads : EnsureReturn(t)

SpecEnsure == InitEnsure /\ [][NextEnsure]_vars

\* Version detection alone: getPythonVersion on one interpreter.
InitVersion ==
  /\ verIn \in [fails : BOOLEAN, output : Outputs]
  /\ verOut = NoDetect
  /\ environ = [ok |-> FALSE, val |-> << >>]
  /\ RunIdle
  /\ fsExists = FALSE
  /\ prov = NoProv

NextVersion == Detect

SpecVersion == InitVersion /\ [][NextVersion]_vars

(***************************************************************************)
(* Properties of VenvCommand.Run (specification Spec).                     *)
(***************************************************************************)
\* Run of goroutine t has its result ready to return.
Finished(t) == pc[t] = "done"

\* The child of t was started and exited by itself, and the deadline had
\* not fired while it was running.
ExitedBeforeDeadline(t) ==
  child[t].st = "exited" /\ ~hist[t].firedRunning

\* C1: in buffered mode, a Run whose deadline fires while the child is still
\* running returns an Error of the timeout kind ("Execution timed out"),
\* never the execution-failed kind and never no error, whatever error the
\* process layer returned.
C1_BufferedTimeoutKind ==
  \A t \in Threads :
    (Finished(t) /\ ~cmd[t].StreamOutput /\ hist[t].firedRunning)
      => ErrMsg(out[t].Error) = TimeoutMsg

\* C2: in every mode, buffered and streaming, a Run whose deadline expired
\* before the child exited, and whose child was forcibly terminated for it,
\* reports the timeout kind.
C2_TimeoutKindEveryMode ==
  \A t \in Threads :
    (Finished(t) /\ hist[t].firedRunning /\ child[t].st = "killed")
      => ErrMsg(out[t].Error) = TimeoutMsg

\* C3 as claimed: in either mode, a Run whose child exited by itself with a
\* non-zero status n before the deadline fired returns Exitcode = n and the
\* execution-failed Error, for every timing of the deadline after the exit.
C3_NonZeroExitAnyTiming ==
  \A t \in Threads :
    (Finished(t) /\ ExitedBeforeDeadline(t) /\ child[t].code # 0)
      => /\ out[t].Exitcode = child[t].code
         /\ ErrMsg(out[t].Error) = ExecFailedMsg

\* C3 as amended: a Run whose child exited by itself with a non-zero status
\* n before the deadline fired returns Exitcode = n and the execution-failed
\* Error in streaming mode, and in buffered mode when the deadline has not
\* fired by the test of line 231; a buffered Run whose deadline fires after
\* the exit and before that test returns the timeout Error and Exitcode -1.
C3_NonZeroExit ==
  \A t \in Threads :
    (Finished(t) /\ ExitedBeforeDeadline(t) /\ child[t].code # 0)
      => IF ~cmd[t].StreamOutput /\ ctxDone[t]
           THEN /\ out[t].Exitcode = -1
                /\ ErrMsg(out[t].Error) = TimeoutMsg
           ELSE /\ out[t].Exitcode = child[t].code
                /\ ErrMsg(out[t].Error) = ExecFailedMsg

\* C3's cases: a buffered Run whose deadline fired between the non-zero exit
\* and the classification, beside a streaming Run with the same timing.
C3_Witness ==
  \E t, u \in Threads :
    /\ Finished(t) /\ ExitedBeforeDeadline(t) /\ child[t].code # 0
    /\ ~cmd[t].StreamOutput /\ ctxDone[t]
    /\ Finished(u) /\ ExitedBeforeDeadline(u) /\ child[u].code # 0
    /\ cmd[u].StreamOutput /\ ctxDone[u]

\* C4: in either mode, a Run whose child exits with status 0 and whose
\* deadline does not fire during the invocation returns no Error and
\* Exitcode = 0.
C4_Success ==
  \A t \in Threads :
    (Finished(t) /\ child[t].st = "exited" /\ child[t].code = 0 /\ ~ctxDone[t])
      => out[t].Error = Nil /\ out[t].Exitcode = 0

\* C4's case, in both modes: a streaming and a buffered Run finished after
\* a zero exit with no deadline.
C4_Witness ==
  \E t, u \in Threads :
    /\ Finished(t) /\ child[t].st = "exited" /\ child[t].code = 0 /\ ~ctxDone[t]
    /\ cmd[t].StreamOutput
    /\ Finished(u) /\ child[u].st = "exited" /\ child[u].code = 0 /\ ~ctxDone[u]
    /\ ~cmd[u].StreamOutput

\* C5: in buffered mode as in streaming mode, a Run whose binary does not
\* exist under <Config.Path>/bin (the start of the process failed for it)
\* returns an Error of the start-error kind and Exitcode = -1.
C5_MissingBinaryStartError ==
  \A t \in Threads :
    (Finished(t) /\ ~cmd[t].binaryExists /\ err[t] = PathError)
      => /\ ErrMsg(out[t].Error) = StartMsg
         /\ out[t].Exitcode = -1

\* C6: a Run that finds PATH not set returns at once (it is at its return
\* right after the lookup) with the environment-lookup error and Exitcode
\* -1, has started no child, and PATH is still not set; no other failure
\* class (missing binary, deadline) replaces that error.
C6_PathUnset ==
  \A t \in Threads :
    hist[t].lookup = "unset"
      => /\ Finished(t)
         /\ out[t].Error = ErrorsNew(EnvLookupMsg)
         /\ out[t].Exitcode = -1
         /\ ~hist[t].started /\ child[t].st = "none"
         /\ ~environ.ok

\* C6's case: a Run for a missing binary, its deadline already fired, that
\* found PATH not set.
C6_Witness ==
  \E t \in Threads :
    /\ Finished(t) /\ hist[t].lookup = "unset"
    /\ ~cmd[t].binaryExists /\ ctxDone[t]

(***************************************************************************)
(* Properties of the provisioner (specification SpecEnsure).               *)
(***************************************************************************)
\* Goroutine t calls Ensure in this step: os.Stat has looked at the path.
EnsureStep(t) == prov.call[t].pc = "idle" /\ prov'.call[t].pc # "idle"

\* A creation strategy is invoked in this step.
StrategyStep ==
  prov'.modules # prov.modules \/ prov'.legacies # prov.legacies

\* C7: Ensure is idempotent.  A call made while the root path exists invokes
\* neither strategy and no version detection, leaves the path in place and
\* returns no error; a strategy is invoked only by a call that found the
\* path absent.
C7_EnsureIdempotent ==
  [][ /\ \A t \in Threads :
           (EnsureStep(t) /\ fsExists) =>
             /\ prov'.call[t].pc = "done"
             /\ prov'.call[t].err = Nil
             /\ ~StrategyStep
             /\ prov'.detects = prov.detects
             /\ fsExists'
             /\ ~prov'.panic
      /\ \A t \in Threads :
           prov'.call[t].found =>
             /\ prov'.call[t].pc = "done"
             /\ prov'.call[t].strategy = "none"
             /\ prov'.call[t].detect = NoDetect
      /\ StrategyStep =>
           \E t \in Threads :
             /\ prov.call[t].pc = "detect" /\ ~prov.call[t].found
             /\ prov'.call[t].strategy # "none" ]_vars

\* C7's case: the second of two Ensure calls found the path that the first
\* one created.
C7_Witness ==
  /\ prov.ensures = 2 /\ fsExists
  /\ prov.modules + prov.legacies = 1
  /\ \E t \in Threads : prov.call[t].pc = "done" /\ prov.call[t].found

\* The Ensure call of goroutine t detected a version and went on to create.
Detected(t) ==
  prov.call[t].detect.st = "returned" /\ prov.call[t].detect.err = Nil

\* makeVenv of goroutine t detects a version in this step.
DetectStep(t) ==
  /\ prov.call[t].pc = "detect"
  /\ prov'.call[t].detect.st = "returned" /\ prov'.call[t].detect.err = Nil

\* C8: for every detected version with major = 3 and minor in 3..9 makeVenv
\* invokes the module strategy, for every detected version with major = 2
\* the legacy strategy, and every creation invokes exactly one of the two.
C8_StrategySelection ==
  [][ \A t \in Threads :
        DetectStep(t) =>
          /\ (prov'.modules - prov.modules) + (prov'.legacies - prov.legacies) = 1
          /\ (prov'.call[t].detect.major = 3 /\ prov'.call[t].detect.minor \in 3..9)
               => /\ prov'.modules = prov.modules + 1
                  /\ prov'.call[t].strategy = "module"
          /\ prov'.call[t].detect.major = 2
               => /\ prov'.legacies = prov.legacies + 1
                  /\ prov'.call[t].strategy = "legacy" ]_vars

\* C8's cases: a creation for version 2.7 next to one for a version
\* 3.3..3.9.
C8_Witness ==
  \E t \in Threads, u \in Threads :
    /\ Detected(t) /\ prov.call[t].detect.major = 2 /\ prov.call[t].detect.minor = 7
    /\ prov.call[t].strategy = "legacy"
    /\ Detected(u) /\ prov.call[u].detect.major = 3
    /\ prov.call[u].detect.minor \in 3..9
    /\ prov.call[u].strategy = "module"
    /\ prov.modules = 1 /\ prov.legacies = 1

\* Version ma.mi is at least 3.3 in version order.
AtLeast33(ma, mi) == ma > 3 \/ (ma = 3 /\ mi >= 3)

\* C9: for every detected version, majors above 3 included, makeVenv selects
\* the module strategy if and only if the version is at least 3.3 in
\* version order, and the legacy strategy otherwise.
C9_VersionOrder ==
  \A t \in Threads :
    Detected(t) =>
      prov.call[t].strategy =
        (IF AtLeast33(prov.call[t].detect.major, prov.call[t].detect.minor)
           THEN "module" ELSE "legacy")

(***************************************************************************)
(* Properties of getPythonVersion (specification SpecVersion).             *)
(***************************************************************************)
\* s from index a to index b is a non-empty string of digits.
AllDigits(s, a, b) == a <= b /\ \A i \in a..b : IsDigit(s[i])

\* s without its final newline.
Chomp(s) ==
  IF Len(s) > 0 /\ s[Len(s)] = "\n" THEN SubSeq(s, 1, Len(s) - 1) ELSE s

\* The line b is "Python X.Y" or "Python X.Y.Z" with Y ending at index j.
FormAt(b, j) ==
  /\ Len(b) >= 4
  /\ b[1] = "Python " /\ IsDigit(b[2]) /\ b[3] = "."
  /\ AllDigits(b, 4, j)
  /\ \/ j = Len(b)
     \/ j + 2 <= Len(b) /\ b[j + 1] = "." /\ AllDigits(b, j + 2, Len(b))

\* The output is one line of the form "Python X.Y" or "Python X.Y.Z".
HasVersionForm(s) == \E j \in 4..Len(Chomp(s)) : FormAt(Chomp(s), j)

\* The X and the Y of an output of that form.
FormMajor(s) == DigitVal(s[2])
FormMinor(s) ==
  LET b == Chomp(s)
      j == CHOOSE k \in 4..Len(b) : FormAt(b, k)
  IN AtoiValue(SubSeq(b, 4, j))

\* C10: getPythonVersion returns exactly (X, Y) for an output of the form
\* "Python X.Y" or "Python X.Y.Z", returns a version-parse error as a value
\* for every output that does not have the form, and never ends abnormally.
C10_ParseOrError ==
  (verOut.st # "none" /\ ~verIn.fails) =>
    IF HasVersionForm(verIn.output)
      THEN verOut = Returned(FormMajor(verIn.output), FormMinor(verIn.output), Nil)
      ELSE /\ verOut.st = "returned"
           /\ ErrMsg(verOut.err) \in {ParseMajorMsg, ParseMinorMsg}

(***************************************************************************)
(* Properties of Config.Update (specification SpecUpdate).                 *)
(***************************************************************************)
UpdateReturned(t) == upd[t].st = "returned" /\ pc[t] = "done"

\* The runner's outcome is something other than a zero exit: the command did
\* not start, the child exited with a non-zero status, or the deadline
\* expired while the child was running.
NotZeroExit(t) ==
  \/ hist[t].lookup = "ok" /\ ~hist[t].started
  \/ child[t].st = "exited" /\ child[t].code # 0
  \/ child[t].st = "killed"
  \/ hist[t].firedRunning

\* C11: Update runs "pip" in buffered mode with exactly the arguments
\* install, -r, requirementsFile; it returns an error exactly when the
\* result of Run carries one; and every outcome of the runner other than a
\* zero exit (non-zero exit, timeout, start failure) makes it return an error.
C11_UpdateErrorOnEveryFailure ==
  \A t \in Threads :
    /\ upd[t].st # "none" =>
         /\ cmd[t].Binary = "pip"
         /\ ~cmd[t].StreamOutput
         /\ cmd[t].Args = <<"install", "-r", upd[t].req>>
    /\ UpdateReturned(t) =>
         /\ (upd[t].err # Nil) <=> (out[t].Error # Nil)
         /\ NotZeroExit(t) => upd[t].err # Nil

(***************************************************************************)
(* Properties of the child's output (SpecCapture and SpecStream).          *)
(***************************************************************************)
\* The lines of a result, both streams.
ResultLines(o) ==
  { o.Stdout[i] : i \in 1..Len(o.Stdout) } \cup
  { o.Stderr[i] : i \in 1..Len(o.Stderr) }

\* The lines a child wrote, both streams.
WrittenLines(w) ==
  { w.o[i] : i \in 1..Len(w.o) } \cup { w.e[i] : i \in 1..Len(w.e) }

\* C12: for concurrent buffered invocations on distinct environments, in any
\* interleaving, the Stdout and Stderr of each result hold exactly what the
\* invocation's own child wrote: nothing of another child, nothing missing.
C12_BufferedIsolation ==
  \A t \in Threads :
    (Finished(t) /\ ~cmd[t].StreamOutput) =>
      /\ \A l \in ResultLines(out[t]) : l.by = t
      /\ ResultLines(out[t]) = WrittenLines(written[t])
      /\ Len(out[t].Stdout) = Len(written[t].o)
      /\ Len(out[t].Stderr) = Len(written[t].e)

\* Two buffered invocations on distinct environments that ran at the same
\* time have both returned, and both children had written output.
C12_Witness ==
  \A t \in Threads :
    /\ Finished(t) /\ ~cmd[t].StreamOutput
    /\ hist[t].overlapped
    /\ out[t].Stdout # << >>
    /\ \A u \in Threads \ {t} : cmd[u].Path # cmd[t].Path

\* C13: in streaming mode Stdout and Stderr of the result are empty at every
\* moment, hence on every return path (start failure, wait failure,
\* success), whatever the child printed; and the buffers of the buffered
\* branch receive nothing, so the two capture strategies are never mixed.
C13_StreamingResultEmpty ==
  \A t \in Threads :
    cmd[t].StreamOutput =>
      /\ out[t].Stdout = << >>
      /\ out[t].Stderr = << >>
      /\ buf[t] = NoLines

\* A streaming invocation returned a wait failure after its child had
\* printed on both streams and a reader had forwarded a line.
C13_Witness ==
  \E t \in Threads :
    /\ Finished(t) /\ cmd[t].StreamOutput /\ out[t].Error # Nil
    /\ hist[t].started
    /\ written[t].o # << >> /\ written[t].e # << >>
    /\ fwd[t].o # << >>

\* C14: in buffered mode, on every return path after the child was
\* attempted (success, non-zero exit, timeout, start failure), Stdout and
\* Stderr of the result are what the child had written to the matching
\* stream by then: nothing written before a failure or a timeout is lost.
C14_BufferedCapture ==
  \A t \in Threads :
    (~cmd[t].StreamOutput /\ Finished(t) /\ hist[t].lookup = "ok") =>
      /\ out[t].Stdout = written[t].o
      /\ out[t].Stderr = written[t].e

\* One buffered invocation returned after its child was killed at the
\* deadline, having written to both streams, and another returned a start
\* failure.
C14_Witness ==
  \E t \in Threads, u \in Threads :
    /\ Finished(t) /\ ~cmd[t].StreamOutput /\ child[t].st = "killed"
    /\ out[t].Stdout # << >> /\ out[t].Stderr # << >>
    /\ Finished(u) /\ ~cmd[u].StreamOutput
    /\ hist[u].lookup = "ok" /\ ~hist[u].started

\* C16: in streaming mode, at the moment Run returns, the lines forwarded
\* for each stream are all the lines the child wrote to it, in order: no
\* trailing line is dropped.
C16_AllLinesForwarded ==
  \A t \in Threads :
    (Finished(t) /\ cmd[t].StreamOutput /\ hist[t].started) =>
      fwd[t] = written[t]

(***************************************************************************)
(* Properties of the process-wide PATH (specification SpecPath).           *)
(***************************************************************************)
\* The invocation of t has built the environment of its child (line 188).
EnvBuilt(t) ==
  hist[t].lookup = "ok" /\ pc[t] \notin {"idle", "lookup", "setenv", "build"}

\* C15: for every invocation that got past the PATH lookup and whose Env
\* names no PATH, the PATH handed to the child contains <Config.Path>/bin,
\* in every interleaving of concurrent invocations on distinct environments.
C15_ChildPathHasOwnBin ==
  \A t \in Threads :
    (EnvBuilt(t) /\ ~cmd[t].Env.ok) =>
      Contains(cmdEnv[t], JoinBin(cmd[t].Path))

\* a is a suffix of b.
IsSuffix(a, b) ==
  Len(a) <= Len(b) /\ SubSeq(b, Len(b) - Len(a) + 1, Len(b)) = a

\* C20: Run changes the process-wide PATH only by prepending, so the old
\* value and the initial value stay suffixes of the new one and PATH is
\* never restored or shortened; and when no two invocations have overlapped,
\* an invocation on an environment that was run before leaves PATH as it is.
C20_PathOnlyPrepended ==
  [][ /\ environ' # environ =>
           /\ IsSuffix(environ.val, environ'.val)
           /\ IsSuffix(ghost.env0.val, environ'.val)
      /\ \A t \in Threads :
           (/\ pc[t] = "setenv" /\ pc'[t] = "build"
            /\ ~ghost.overlap
            /\ cmd[t].Path \in ghost.ran) => environ' = environ
    ]_vars

(***************************************************************************)
(* Termination and the shape of the result (Spec and SpecLive).            *)
(***************************************************************************)
\* C17: in streaming mode every failure of the wait step, a non-zero exit
\* or an error that is no exit status, makes Run return the
\* execution-failed Error with a best-effort Exitcode (the exit status, or
\* -1 where there is none); no wait failure ends Run abnormally.
C17_WaitFailureReturns ==
  \A t \in Threads :
    (cmd[t].StreamOutput /\ hist[t].started /\ err[t] # Nil) =>
      /\ ~crashed
      /\ Finished(t)
      /\ ErrMsg(out[t].Error) = ExecFailedMsg
      /\ out[t].Exitcode = IF err[t].kind = "ExitError" THEN err[t].code ELSE -1

\* C18: every invocation of Run eventually returns a result, also for a
\* child that never exits by itself, given fair scheduling and a killed
\* child that exits.
C18_RunReturns ==
  \A t \in Threads : (pc[t] = "lookup") ~> (pc[t] = "done")

\* C19: in every result Error is nil exactly when Exitcode is 0; no result
\* has Error nil and Exitcode -1, whenever the deadline expires.
C19_ErrorNilIffExitZero ==
  \A t \in Threads :
    Finished(t) => ((out[t].Error = Nil) <=> (out[t].Exitcode = 0))

====
